---------------------------- MODULE Spec2Model ----------------------------
(***************************************************************************)
(* A model of src/backend/api.js: the Express backend of the storefront    *)
(* and of its admin panel.  Every route handler is an async function that  *)
(* suspends at each call of the hosted store (auth + Postgres); a request  *)
(* is a process whose steps are those calls, so requests of different      *)
(* clients interleave exactly at the awaits.  The state of the program is  *)
(* the state of the store (identities, issued sessions, the users, orders  *)
(* and products tables) plus, per client, the request in flight with the   *)
(* handler's locals and the response once it is sent.                      *)
(***************************************************************************)
EXTENDS Integers, Sequences, FiniteSets, TLC

(***************************************************************************)
(* Bounds of the model.                                                    *)
(***************************************************************************)
MaxExpiresIn == 2      \* session durations the store may report, in seconds
MaxImages    == 1      \* longest images array a product body carries
MaxTime      == 2      \* instants (milliseconds) the server clock may show
MaxProducts  == 2      \* rows of a products table the catalogue starts from
MaxInserts   == 1      \* rows POST /api/products may add in one run

Clients      == {"c1", "c2"}   \* concurrent callers of the storefront routes
Callers      == {"c1"}         \* the caller of the admin and catalogue routes
Passwords    == {"p1", "p2"}
NewEmails    == {"carol"}
Emails       == {"root", "alice"} \cup NewEmails

MsPerSecond  == 1000   \* api.js: maxAge: expires_in * 1000

VARIABLES
    authUsers,      \* identities of the auth store: [id, email, password]
    sessions,       \* access tokens the auth store has issued
    profiles,       \* rows of table 'users': [rowid, supabase_id, email, role]
    orders,         \* rows of table 'orders': [id, user_id, created_at]
    products,       \* rows of table 'products'
    nextProductId,  \* the products table's id sequence
    req             \* per client: the request in flight or last answered

vars == <<authUsers, sessions, profiles, orders, products, nextProductId, req>>

(***************************************************************************)
(* Values.                                                                 *)
(***************************************************************************)
NoUser  == [id |-> 0, email |-> "", password |-> ""]
NoRow   == [rowid |-> 0, supabase_id |-> 0, email |-> "", role |-> ""]

\* A bearer token: the identity it was issued for and whether the auth
\* store signed it.  NoToken is the absent cookie (req.cookies[...] undefined).
NoToken == [sub |-> 0, signed |-> FALSE]
Forged  == [sub |-> 1, signed |-> FALSE]
AccessToken(user) == [sub |-> user.id, signed |-> TRUE]

\* A timestamp string: the instant it denotes, in milliseconds, and the
\* notation of its zone: "+00:00" as Postgres returns a timestamptz, "Z" as
\* Date.prototype.toISOString() writes it.  NoTime is null / undefined.
NoTime    == [ms |-> 0, zone |-> ""]
DbTime(m) == [ms |-> m, zone |-> "+00:00"]

\* The images value of a product body: an array of the given length, or a
\* value that is no array (a string of two characters, or null).
ImagesArray(n) == [isArray |-> TRUE, length |-> n]
ImagesString   == [isArray |-> FALSE, length |-> 2]
ImagesNull     == [isArray |-> FALSE, length |-> 0]
ImagesValues   == {ImagesArray(n) : n \in 1..MaxImages} \cup {ImagesString}

NoProduct == [id |-> 0, status |-> "", images |-> ImagesNull,
              created_at |-> NoTime, updated_at |-> NoTime]

NoOverview == [totalProducts |-> 0, activeProducts |-> 0, totalImages |-> 0,
               lastUpdated |-> NoTime]
NoCookie == [op |-> "none", name |-> "", value |-> NoToken, maxAge |-> 0]
NoBody   == [error |-> "", success |-> FALSE, user |-> NoUser, profile |-> NoRow,
             rows |-> <<>>, row |-> NoProduct, overview |-> NoOverview]

NoSession == [access_token |-> NoToken, expires_in |-> 0]

\* What the store held when the request's calls reached it (history, not
\* read by any handler): whether the credentials matched an identity,
\* whether the email was new, the identity the cookie's token belongs to,
\* that identity's profile rows, and the products row the :id names.
NotSeen == [credsValid |-> FALSE, emailNew |-> FALSE, identity |-> 0,
            profileRows |-> {}, product |-> {}, table |-> {}]

\* A request slot: the route, the handler's position, the request's inputs
\* (body fields, the :id parameter, the cookie the route reads), the
\* handler's locals, the store calls issued so far and the response.
Idle == [route |-> "", pc |-> "idle", email |-> "", password |-> "",
         pid |-> 0, pstatus |-> "", pimages |-> ImagesNull,
         cookie |-> NoToken, user |-> NoUser, session |-> NoSession,
         calls |-> {}, seen |-> NotSeen,
         status |-> 0, body |-> NoBody, setCookie |-> NoCookie]

Free(c) == req[c].pc \in {"idle", "done"}

\* res.status(s).json(b), with the Set-Cookie header the handler added.
Respond(r, s, b, ck) ==
    [r EXCEPT !.pc = "done", !.status = s, !.body = b, !.setCookie = ck]

Err(msg) == [NoBody EXCEPT !.error = msg]

Called(r, call) == [r EXCEPT !.calls = @ \cup {call}]


(***************************************************************************)
(* The hosted store, as the handlers use it.  Each operator is one call of *)
(* the supabase client: its result is the {data, error} object the         *)
(* handler destructures.  A call's result follows from what the store      *)
(* holds; the one call whose outcome the tables' constraints decide, the   *)
(* insert into 'users', may also fail.  The store is reachable throughout, *)
(* so no call throws and the handlers' catch blocks answer only the errors *)
(* the handlers throw themselves.  Columns no handler reads (name, phone,  *)
(* description, price) are left out of the rows.                           *)
(***************************************************************************)

\* supabase.auth.signUp({email, password}): a new identity with a fresh id,
\* or an error when the email already has an identity.
SignUp(email, password) ==
    IF \E u \in authUsers : u.email = email
    THEN [user |-> NoUser, error |-> "User already registered"]
    ELSE [user |-> [id |-> Cardinality(authUsers) + 1, email |-> email,
                    password |-> password],
          error |-> ""]

\* supabase.auth.signInWithPassword({email, password}): the identity and a
\* session {access_token, expires_in}, or an error.
SignIn(email, password, expiresIn) ==
    IF \E u \in authUsers : u.email = email /\ u.password = password
    THEN LET u == CHOOSE v \in authUsers : v.email = email /\ v.password = password
         IN  [user |-> u, access_token |-> AccessToken(u),
              expires_in |-> expiresIn, error |-> ""]
    ELSE [user |-> NoUser, access_token |-> NoToken, expires_in |-> 0,
          error |-> "Invalid login credentials"]

\* supabase.auth.getUser(token): the identity a token the store issued
\* belongs to, or an error.
GetUser(token) ==
    IF token \in sessions /\ \E u \in authUsers : u.id = token.sub
    THEN [user |-> CHOOSE u \in authUsers : u.id = token.sub, error |-> ""]
    ELSE [user |-> NoUser, error |-> "invalid JWT"]

\* .single(): the one row of a result, or PostgREST's error PGRST116 when
\* the result has no row or several (the code GET /product/:id tests for).
Single(rows, none) ==
    IF Cardinality(rows) = 1
    THEN [data |-> CHOOSE x \in rows : TRUE, error |-> ""]
    ELSE [data |-> none, error |-> "PGRST116"]

\* .from('users').select(...).eq('supabase_id', id).single()
ProfileOf(id) == Single({p \in profiles : p.supabase_id = id}, NoRow)

\* .order('created_at', {ascending: false}): the orderings of a result by
\* creation time, newest first (rows of equal time in either order).
TimeKey(ts) == ts.ms
OrderDesc(rows) ==
    LET n == Cardinality(rows)
    IN  {s \in [1..n -> rows] :
            /\ \A i, j \in 1..n : i # j => s[i] # s[j]
            /\ \A i, j \in 1..n :
                 i < j => TimeKey(s[i].created_at) >= TimeKey(s[j].created_at)}

\* The cookie values a client can send: none, a token it made up, or a
\* token the store issued at some login.
CookieInputs == sessions \cup {NoToken, Forged}

(***************************************************************************)
(* POST /store/register                                                    *)
(***************************************************************************)
RegisterBegin(c) ==
    /\ Free(c)
    /\ \E email \in Emails, password \in Passwords :
         req' = [req EXCEPT ![c] = [Idle EXCEPT !.route = "POST /store/register",
                    !.pc = "signUp", !.email = email, !.password = password]]
    /\ UNCHANGED <<authUsers, sessions, profiles, orders, products, nextProductId>>

\* step 1: await supabase.auth.signUp; authError is thrown to the catch
\* (500); a successful signUp always carries the user, so line 41 never throws
RegisterSignUp(c) ==
    /\ req[c].route = "POST /store/register" /\ req[c].pc = "signUp"
    /\ LET r   == [Called(req[c], "auth.signUp") EXCEPT !.seen.emailNew =
                        ~ \E u \in authUsers : u.email = req[c].email]
           res == SignUp(r.email, r.password)
       IN  IF res.error # ""
           THEN /\ req' = [req EXCEPT ![c] = Respond(r, 500, Err(res.error), NoCookie)]
                /\ UNCHANGED authUsers
           ELSE /\ authUsers' = authUsers \cup {res.user}
                /\ req' = [req EXCEPT ![c] = [r EXCEPT !.user = res.user,
                                                       !.pc = "insertProfile"]]
    /\ UNCHANGED <<sessions, profiles, orders, products, nextProductId>>

\* The row step 2 inserts: role is fixed to 'user'.
NewProfile(r) ==
    [rowid |-> Cardinality(profiles) + 1, supabase_id |-> r.user.id,
     email |-> r.email, role |-> "user"]

\* step 2 with a compensation: a failed insert deletes the identity again
RegisterInsertProfile_Rollback(c) ==
    /\ req[c].route = "POST /store/register" /\ req[c].pc = "insertProfile"
    /\ LET r == Called(req[c], "users.insert")
       IN  \E inserted \in BOOLEAN :
             IF inserted
             THEN /\ profiles' = profiles \cup {NewProfile(r)}
                  /\ UNCHANGED authUsers
                  /\ req' = [req EXCEPT ![c] =
                        Respond(r, 201, [NoBody EXCEPT !.success = TRUE], NoCookie)]
             ELSE /\ UNCHANGED profiles
                  /\ authUsers' = authUsers \ {r.user}
                  /\ req' = [req EXCEPT ![c] =
                        Respond(r, 500, Err("insert failed"), NoCookie)]
    /\ UNCHANGED <<sessions, orders, products, nextProductId>>

\* step 2: await supabase.from('users').insert(...); the table may reject the
\* row (profileError), which is thrown to the catch: 500, and nothing undoes
\* step 1.
RegisterInsertProfile(c) ==
    /\ req[c].route = "POST /store/register" /\ req[c].pc = "insertProfile"
    /\ LET r == Called(req[c], "users.insert")
       IN  \E inserted \in BOOLEAN :
             IF inserted
             THEN /\ profiles' = profiles \cup {NewProfile(r)}
                  /\ req' = [req EXCEPT ![c] =
                        Respond(r, 201, [NoBody EXCEPT !.success = TRUE], NoCookie)]
             ELSE /\ UNCHANGED profiles
                  /\ req' = [req EXCEPT ![c] =
                        Respond(r, 500, Err("insert failed"), NoCookie)]
    /\ UNCHANGED <<authUsers, sessions, orders, products, nextProductId>>

(***************************************************************************)
(* POST /store/login                                                       *)
(***************************************************************************)
\* maxAge given in seconds
CookieMaxAge_Seconds(expiresIn) == expiresIn

\* maxAge: sessionData.session.expires_in * 1000
CookieMaxAge(expiresIn) == expiresIn * MsPerSecond

SetCookie(name, token, expiresIn) ==
    [op |-> "set", name |-> name, value |-> token, maxAge |-> CookieMaxAge(expiresIn)]

\* res.clearCookie(name) and res.cookie(name, '', {expires: new Date(0)})
ClearCookie(name) == [op |-> "clear", name |-> name, value |-> NoToken, maxAge |-> 0]

SessionOf(res) == [access_token |-> res.access_token, expires_in |-> res.expires_in]

\* history: the identity the request's credentials match, if any
SeenCreds(r) ==
    [r EXCEPT !.seen.credsValid =
                 \E u \in authUsers : u.email = r.email /\ u.password = r.password,
              !.seen.identity =
                 IF \E u \in authUsers : u.email = r.email /\ u.password = r.password
                 THEN (CHOOSE u \in authUsers : u.email = r.email).id ELSE 0,
              !.seen.profileRows =
                 {p \in profiles : \E u \in authUsers :
                     u.email = r.email /\ u.password = r.password /\ p.supabase_id = u.id}]

StoreLoginBegin(c) ==
    /\ Free(c)
    /\ \E email \in Emails, password \in Passwords :
         req' = [req EXCEPT ![c] = [Idle EXCEPT !.route = "POST /store/login",
                    !.pc = "signIn", !.email = email, !.password = password]]
    /\ UNCHANGED <<authUsers, sessions, profiles, orders, products, nextProductId>>

\* await supabase.auth.signInWithPassword, then the cookie and 200, or 401
StoreLoginSignIn(c) ==
    /\ req[c].route = "POST /store/login" /\ req[c].pc = "signIn"
    /\ \E expiresIn \in 1..MaxExpiresIn :
         LET r   == SeenCreds(Called(req[c], "auth.signIn"))
             res == SignIn(r.email, r.password, expiresIn)
         IN  IF res.error # ""
             THEN /\ req' = [req EXCEPT ![c] = Respond(r, 401, Err(res.error), NoCookie)]
                  /\ UNCHANGED sessions
             ELSE /\ sessions' = sessions \cup {res.access_token}
                  /\ req' = [req EXCEPT ![c] =
                        Respond([r EXCEPT !.user = res.user, !.session = SessionOf(res)],
                                200, [NoBody EXCEPT !.success = TRUE],
                                SetCookie("sf-token", res.access_token, res.expires_in))]
    /\ UNCHANGED <<authUsers, profiles, orders, products, nextProductId>>

(***************************************************************************)
(* GET /store/me                                                           *)
(***************************************************************************)
\* history: the identity the cookie's token was issued to, if the store
\* issued it
SeenToken(r) ==
    [r EXCEPT !.seen.identity = IF r.cookie \in sessions THEN r.cookie.sub ELSE 0]

SeenProfile(r) ==
    [r EXCEPT !.seen.profileRows = {p \in profiles : p.supabase_id = r.user.id}]

MeBegin(c) ==
    /\ Free(c)
    /\ \E token \in CookieInputs :
         LET r == [Idle EXCEPT !.route = "GET /store/me", !.cookie = token]
         IN  req' = [req EXCEPT ![c] =
                IF token = NoToken
                THEN Respond(r, 401, Err("No active session"), NoCookie)
                ELSE [r EXCEPT !.pc = "getUser"]]
    /\ UNCHANGED <<authUsers, sessions, profiles, orders, products, nextProductId>>

MeGetUser(c) ==
    /\ req[c].route = "GET /store/me" /\ req[c].pc = "getUser"
    /\ LET r   == SeenToken(Called(req[c], "auth.getUser"))
           res == GetUser(r.cookie)
       IN  req' = [req EXCEPT ![c] =
              IF res.error # "" \/ res.user = NoUser
              THEN Respond(r, 401, Err("Invalid session"), ClearCookie("sf-token"))
              ELSE [r EXCEPT !.user = res.user, !.pc = "profile"]]
    /\ UNCHANGED <<authUsers, sessions, profiles, orders, products, nextProductId>>

\* /store/me without its test of the profile query's result
MeResponse_NoProfileCheck(r, res) ==
    Respond(r, 200, [NoBody EXCEPT !.user = r.user, !.profile = res.data], NoCookie)

\* The answer of /store/me once the profile query has returned.
MeResponse(r, res) ==
    IF res.error # "" \/ res.data = NoRow
    THEN Respond(r, 404, Err("User profile not found."), NoCookie)
    ELSE Respond(r, 200, [NoBody EXCEPT !.user = r.user, !.profile = res.data],
                 NoCookie)

MeProfile(c) ==
    /\ req[c].route = "GET /store/me" /\ req[c].pc = "profile"
    /\ LET r == SeenProfile(Called(req[c], "users.select"))
       IN  req' = [req EXCEPT ![c] = MeResponse(r, ProfileOf(r.user.id))]
    /\ UNCHANGED <<authUsers, sessions, profiles, orders, products, nextProductId>>

(***************************************************************************)
(* POST /store/logout                                                      *)
(***************************************************************************)
StoreLogout(c) ==
    /\ Free(c)
    /\ req' = [req EXCEPT ![c] =
          Respond([Idle EXCEPT !.route = "POST /store/logout"], 200,
                  [NoBody EXCEPT !.success = TRUE], ClearCookie("sf-token"))]
    /\ UNCHANGED <<authUsers, sessions, profiles, orders, products, nextProductId>>

(***************************************************************************)
(* authenticateStorefrontUser and GET /store/orders                        *)
(***************************************************************************)
OrdersBegin(c) ==
    /\ Free(c)
    /\ \E token \in CookieInputs :
         LET r == [Idle EXCEPT !.route = "GET /store/orders", !.cookie = token]
         IN  req' = [req EXCEPT ![c] =
                IF token = NoToken
                THEN Respond(r, 401, Err("No active session"), NoCookie)
                ELSE [r EXCEPT !.pc = "getUser"]]
    /\ UNCHANGED <<authUsers, sessions, profiles, orders, products, nextProductId>>

\* the middleware's await; on success req.user is set and next() runs the
\* handler up to its own await
AuthStorefrontGetUser(c) ==
    /\ req[c].route = "GET /store/orders" /\ req[c].pc = "getUser"
    /\ LET r   == SeenToken(Called(req[c], "auth.getUser"))
           res == GetUser(r.cookie)
       IN  req' = [req EXCEPT ![c] =
              IF res.error # "" \/ res.user = NoUser
              THEN Respond(r, 401, Err("Invalid session"), ClearCookie("sf-token"))
              ELSE [r EXCEPT !.user = res.user, !.pc = "query"]]
    /\ UNCHANGED <<authUsers, sessions, profiles, orders, products, nextProductId>>

\* the query without its .eq('user_id', ...) filter
OrdersOf_NoFilter(user) == orders

\* .from('orders').select('*').eq('user_id', req.user.id)
OrdersOf(user) == {o \in orders : o.user_id = user.id}

OrdersQuery(c) ==
    /\ req[c].route = "GET /store/orders" /\ req[c].pc = "query"
    /\ LET r == Called(req[c], "orders.select")
       IN  \E data \in OrderDesc(OrdersOf(r.user)) :
             req' = [req EXCEPT ![c] =
                Respond(r, 200, [NoBody EXCEPT !.rows = data], NoCookie)]
    /\ UNCHANGED <<authUsers, sessions, profiles, orders, products, nextProductId>>

(***************************************************************************)
(* POST /login and POST /logout (admin)                                    *)
(***************************************************************************)
AdminLoginBegin(c) ==
    /\ Free(c)
    /\ \E email \in Emails, password \in Passwords :
         req' = [req EXCEPT ![c] = [Idle EXCEPT !.route = "POST /login",
                    !.pc = "signIn", !.email = email, !.password = password]]
    /\ UNCHANGED <<authUsers, sessions, profiles, orders, products, nextProductId>>

\* await signInWithPassword: 401 on authError, else keep {user, session}
AdminLoginSignIn(c) ==
    /\ req[c].route = "POST /login" /\ req[c].pc = "signIn"
    /\ \E expiresIn \in 1..MaxExpiresIn :
         LET r   == SeenCreds(Called(req[c], "auth.signIn"))
             res == SignIn(r.email, r.password, expiresIn)
         IN  IF res.error # ""
             THEN /\ req' = [req EXCEPT ![c] = Respond(r, 401, Err(res.error), NoCookie)]
                  /\ UNCHANGED sessions
             ELSE /\ sessions' = sessions \cup {res.access_token}
                  /\ req' = [req EXCEPT ![c] =
                        [r EXCEPT !.user = res.user, !.session = SessionOf(res),
                                  !.pc = "role"]]
    /\ UNCHANGED <<authUsers, profiles, orders, products, nextProductId>>

\* POST /login without its comparison of profile.role
AdminLoginResponse_NoRoleCheck(r, res) ==
    IF res.error # "" \/ res.data = NoRow
    THEN Respond(r, 403, Err("Profile not found."), NoCookie)
    ELSE Respond(r, 200, [NoBody EXCEPT !.success = TRUE],
                 SetCookie("token", r.session.access_token, r.session.expires_in))

\* The answer of POST /login once the role query has returned.
AdminLoginResponse(r, res) ==
    IF res.error # "" \/ res.data = NoRow
    THEN Respond(r, 403, Err("Profile not found."), NoCookie)
    ELSE IF res.data.role # "admin"
    THEN Respond(r, 403, Err("Not an administrator."), NoCookie)
    ELSE Respond(r, 200, [NoBody EXCEPT !.success = TRUE],
                 SetCookie("token", r.session.access_token, r.session.expires_in))

AdminLoginRole(c) ==
    /\ req[c].route = "POST /login" /\ req[c].pc = "role"
    /\ LET r == SeenProfile(Called(req[c], "users.select"))
       IN  req' = [req EXCEPT ![c] = AdminLoginResponse(r, ProfileOf(r.user.id))]
    /\ UNCHANGED <<authUsers, sessions, profiles, orders, products, nextProductId>>

AdminLogout(c) ==
    /\ Free(c)
    /\ req' = [req EXCEPT ![c] =
          Respond([Idle EXCEPT !.route = "POST /logout"], 200,
                  [NoBody EXCEPT !.success = TRUE], ClearCookie("token"))]
    /\ UNCHANGED <<authUsers, sessions, profiles, orders, products, nextProductId>>

(***************************************************************************)
(* The initial state: the store holds an administrator and a customer,     *)
(* both registered and with a profile, and orders of three identities; no  *)
(* session is open, no product exists, no request is in flight.            *)
(***************************************************************************)
Init ==
    /\ authUsers = {[id |-> 1, email |-> "root", password |-> "p1"],
                    [id |-> 2, email |-> "alice", password |-> "p1"]}
    /\ sessions = {}
    /\ profiles = {[rowid |-> 1, supabase_id |-> 1, email |-> "root", role |-> "admin"],
                   [rowid |-> 2, supabase_id |-> 2, email |-> "alice", role |-> "user"]}
    /\ orders = {[id |-> 1, user_id |-> 1, created_at |-> DbTime(1)],
                 [id |-> 2, user_id |-> 2, created_at |-> DbTime(2)],
                 [id |-> 3, user_id |-> 2, created_at |-> DbTime(3)],
                 [id |-> 4, user_id |-> 3, created_at |-> DbTime(4)]}
    /\ products = {}
    /\ nextProductId = 1
    /\ req = [c \in Clients |-> Idle]

NextStore ==
    \E c \in Clients :
        \/ RegisterBegin(c) \/ RegisterSignUp(c) \/ RegisterInsertProfile(c)
        \/ StoreLoginBegin(c) \/ StoreLoginSignIn(c)
        \/ MeBegin(c) \/ MeGetUser(c) \/ MeProfile(c)
        \/ StoreLogout(c)
        \/ OrdersBegin(c) \/ AuthStorefrontGetUser(c) \/ OrdersQuery(c)
        \/ AdminLoginBegin(c) \/ AdminLoginSignIn(c) \/ AdminLoginRole(c)
        \/ AdminLogout(c)

SpecStore == Init /\ [][NextStore]_vars


(***************************************************************************)
(* Properties of the storefront and login routes, checked under SpecStore. *)
(***************************************************************************)
Done(c, route) == req[c].route = route /\ req[c].pc = "done"

IdentitiesOf(email) == {u \in authUsers : u.email = email}
ProfileRowsOf(id)   == {p \in profiles : p.supabase_id = id}

\* C1: every row of a 200 response of GET /store/orders belongs to the
\* identity the request's token was issued to, whatever other requests
\* ran between its token lookup and its query.
C1_OrdersOnlyOwnRows ==
    \A c \in Clients :
        (Done(c, "GET /store/orders") /\ req[c].status = 200) =>
            /\ req[c].seen.identity = req[c].cookie.sub
            /\ \A i \in DOMAIN req[c].body.rows :
                 req[c].body.rows[i].user_id = req[c].cookie.sub

\* C1 witness: one user has been answered with its rows while another
\* user's request waits between its token lookup and its orders query.
C1_Witness ==
    \E a, b \in Clients :
        /\ Done(a, "GET /store/orders") /\ req[a].status = 200
        /\ Len(req[a].body.rows) = 2
        /\ req[b].route = "GET /store/orders" /\ req[b].pc = "query"
        /\ req[b].user.id # req[a].cookie.sub
        /\ \E o \in orders : o.user_id = req[b].user.id

\* C2, as claimed: a register request for an email that had no identity
\* ends 201 with exactly one identity and exactly one profile row of role
\* "user"; one for a used email ends 500 without inserting a profile row.
C2_RegisterCreatesIdentityAndProfile ==
    \A c \in Clients :
        Done(c, "POST /store/register") =>
            IF req[c].seen.emailNew
            THEN /\ req[c].status = 201
                 /\ Cardinality(IdentitiesOf(req[c].email)) = 1
                 /\ Cardinality(ProfileRowsOf(req[c].user.id)) = 1
                 /\ \A p \in ProfileRowsOf(req[c].user.id) : p.role = "user"
            ELSE /\ req[c].status = 500
                 /\ "users.insert" \notin req[c].calls

\* What POST /login must answer, from what the store held at its calls.
AdminProfileSeen(r) ==
    /\ r.seen.profileRows # {}
    /\ \A p \in r.seen.profileRows : p.role = "admin"

\* C4: POST /login sets the cookie `token` exactly when the credentials
\* verify and the profile exists with role "admin" (200); valid credentials
\* without such a profile give 403 and no cookie, invalid ones 401 and no
\* cookie; POST /store/login never sets the cookie `token`.
C4_AdminCookieOnlyForAdmins ==
    \A c \in Clients :
        /\ Done(c, "POST /login") =>
             IF ~ req[c].seen.credsValid
             THEN req[c].status = 401 /\ req[c].setCookie = NoCookie
             ELSE IF AdminProfileSeen(req[c])
             THEN /\ req[c].status = 200
                  /\ req[c].setCookie.op = "set" /\ req[c].setCookie.name = "token"
                  /\ req[c].setCookie.value = [sub |-> req[c].seen.identity, signed |-> TRUE]
             ELSE req[c].status = 403 /\ req[c].setCookie = NoCookie
        /\ Done(c, "POST /store/login") => req[c].setCookie.name # "token"

\* C4 witness: a customer with valid credentials was refused (403) and the
\* administrator was given the cookie.
C4_Witness ==
    \E a, b \in Clients :
        /\ Done(a, "POST /login") /\ req[a].seen.credsValid /\ req[a].status = 403
        /\ Done(b, "POST /login") /\ req[b].status = 200

\* C5: POST /store/login with valid credentials answers 200 and sets
\* `sf-token` to the issued access token with max-age = the reported
\* duration in seconds times 1000; with invalid ones 401 and no cookie.
C5_StoreLoginCookie ==
    \A c \in Clients :
        Done(c, "POST /store/login") =>
            IF req[c].seen.credsValid
            THEN /\ req[c].status = 200
                 /\ req[c].setCookie = [op |-> "set", name |-> "sf-token",
                        value |-> [sub |-> req[c].seen.identity, signed |-> TRUE],
                        maxAge |-> req[c].session.expires_in * 1000]
                 /\ req[c].setCookie.value \in sessions
            ELSE req[c].status = 401 /\ req[c].setCookie = NoCookie

\* C5 witness: one login succeeded with the longest duration, another failed.
C5_Witness ==
    \E a, b \in Clients :
        /\ Done(a, "POST /store/login") /\ req[a].status = 200
        /\ req[a].session.expires_in = MaxExpiresIn
        /\ Done(b, "POST /store/login") /\ req[b].status = 401

\* A register request whose step (a) created an identity and whose step (b)
\* failed.
Orphaned(c) ==
    /\ Done(c, "POST /store/register") /\ req[c].status = 500
    /\ "users.insert" \in req[c].calls

OrphanIds == {req[c].user.id : c \in {d \in Clients : Orphaned(d)}}

\* C6, as amended: after step (a) succeeded and step (b) failed the answer is
\* 500, the identity stays and has no profile row; for that identity every
\* GET /store/me answers 404 and every POST /login answers 403.
C6_OrphanIdentity ==
    \A c \in Clients :
        /\ Orphaned(c) =>
             /\ req[c].user \in authUsers
             /\ ProfileRowsOf(req[c].user.id) = {}
        /\ (Done(c, "GET /store/me") /\ req[c].seen.identity \in OrphanIds) =>
             req[c].status = 404
        /\ (Done(c, "POST /login") /\ req[c].seen.credsValid
                /\ req[c].seen.identity \in OrphanIds) =>
             req[c].status = 403

\* C6 witness: a registration was left half done, and the identity it made
\* has since logged in and asked /store/me.
C6_Witness ==
    \E a, b \in Clients :
        /\ Orphaned(a)
        /\ Done(b, "GET /store/me") /\ req[b].seen.identity = req[a].user.id
        /\ req[b].status = 404

\* C6, as claimed: every later login of the orphaned identity fails too.
C6_OrphanLoginFails ==
    \A c \in Clients :
        (Done(c, "POST /store/login") /\ req[c].seen.credsValid
            /\ req[c].seen.identity \in OrphanIds) =>
            req[c].status # 200

\* C7: GET /store/me answers 401 without any store call when there is no
\* cookie; 401 and clears `sf-token` when the token resolves to no identity;
\* 404 when the identity has no profile row; 200 with the identity and its
\* profile under `profile` otherwise.
C7_MeStatuses ==
    \A c \in Clients :
        Done(c, "GET /store/me") =>
            IF req[c].cookie = NoToken
            THEN /\ req[c].status = 401 /\ req[c].calls = {}
                 /\ req[c].setCookie = NoCookie
            ELSE IF req[c].seen.identity = 0
            THEN /\ req[c].status = 401
                 /\ req[c].setCookie.op = "clear" /\ req[c].setCookie.name = "sf-token"
            ELSE IF req[c].seen.profileRows = {}
            THEN req[c].status = 404 /\ req[c].setCookie = NoCookie
            ELSE /\ req[c].status = 200
                 /\ req[c].body.user.id = req[c].seen.identity
                 /\ req[c].body.user \in authUsers
                 /\ req[c].body.profile \in req[c].seen.profileRows

\* C7 witness: one session got 404 for its missing profile, another 200.
C7_Witness ==
    \E a, b \in Clients :
        /\ Done(a, "GET /store/me") /\ req[a].status = 404
        /\ Done(b, "GET /store/me") /\ req[b].status = 200


(***************************************************************************)
(* authenticateAdmin and the /api routes it guards                         *)
(***************************************************************************)
ApiRoutes == {"GET /api/products", "POST /api/products", "PUT /api/products/:id",
              "DELETE /api/products/:id", "GET /api/overview"}
IdRoutes  == {"PUT /api/products/:id", "DELETE /api/products/:id"}

\* ids a request may name: those the table can hold and one it never holds
ProductIds == 1..(MaxProducts + 1)

\* the absent field of a request body (undefined)
ImagesUndefined == [isArray |-> FALSE, length |-> -1]

\* the middleware up to its first await: 401 without the cookie `token`
AuthAdminBegin(c, routes) ==
    /\ Free(c)
    /\ \E route \in routes, token \in CookieInputs, pid \in ProductIds :
         /\ route \notin IdRoutes => pid = 1
         /\ route = "POST /api/products" => nextProductId <= MaxInserts
         /\ LET r == [Idle EXCEPT !.route = route, !.cookie = token,
                         !.pid = IF route \in IdRoutes THEN pid ELSE 0,
                         !.seen.table = products]
            IN  req' = [req EXCEPT ![c] =
                   IF token = NoToken
                   THEN Respond(r, 401, Err("Missing admin token"), NoCookie)
                   ELSE [r EXCEPT !.pc = "getUser"]]
    /\ UNCHANGED <<authUsers, sessions, profiles, orders, products, nextProductId>>

\* await supabase.auth.getUser(token): 401 when it resolves to no identity
\* (the cookie is left as it is)
AuthAdminGetUser(c) ==
    /\ req[c].route \in ApiRoutes /\ req[c].pc = "getUser"
    /\ LET r   == SeenToken(Called(req[c], "auth.getUser"))
           res == GetUser(r.cookie)
       IN  req' = [req EXCEPT ![c] =
              IF res.error # "" \/ res.user = NoUser
              THEN Respond(r, 401, Err("Invalid admin token"), NoCookie)
              ELSE [r EXCEPT !.user = res.user, !.pc = "role"]]
    /\ UNCHANGED <<authUsers, sessions, profiles, orders, products, nextProductId>>

\* the middleware without its comparison of profile.role
AuthAdminDecision_NoRoleCheck(r, res) ==
    IF res.error # "" \/ res.data = NoRow
    THEN Respond(r, 403, Err("Admin profile not found."), NoCookie)
    ELSE [r EXCEPT !.pc = "handler"]

\* The middleware's decision once the role query has returned: 403 without
\* a profile, 403 when the role is not 'admin', else next().
AuthAdminDecision(r, res) ==
    IF res.error # "" \/ res.data = NoRow
    THEN Respond(r, 403, Err("Admin profile not found."), NoCookie)
    ELSE IF res.data.role # "admin"
    THEN Respond(r, 403, Err("Access Denied: Not an admin."), NoCookie)
    ELSE [r EXCEPT !.pc = "handler"]

AuthAdminRole(c) ==
    /\ req[c].route \in ApiRoutes /\ req[c].pc = "role"
    /\ LET r == SeenProfile(Called(req[c], "users.select"))
       IN  req' = [req EXCEPT ![c] = AuthAdminDecision(r, ProfileOf(r.user.id))]
    /\ UNCHANGED <<authUsers, sessions, profiles, orders, products, nextProductId>>

\* history: the table and the rows the :id names when the handler's call
\* reaches the store
SeenProducts(r) ==
    [r EXCEPT !.seen.table = products,
              !.seen.product = {p \in products : p.id = r.pid}]

\* GET /api/products: every row, newest first
ApiProductsList(c) ==
    /\ req[c].route = "GET /api/products" /\ req[c].pc = "handler"
    /\ LET r == SeenProducts(Called(req[c], "products.select"))
       IN  \E data \in OrderDesc(products) :
             req' = [req EXCEPT ![c] =
                Respond(r, 200, [NoBody EXCEPT !.rows = data], NoCookie)]
    /\ UNCHANGED <<authUsers, sessions, profiles, orders, products, nextProductId>>

\* POST /api/products: insert {status, images, ...}; the table gives the row
\* its id and its created_at (its clock has advanced at every insert)
ApiProductsCreate(c) ==
    /\ req[c].route = "POST /api/products" /\ req[c].pc = "handler"
    /\ \E status \in {"active", "inactive"}, images \in ImagesValues :
         LET r   == [SeenProducts(Called(req[c], "products.insert"))
                        EXCEPT !.pstatus = status, !.pimages = images]
             row == [id |-> nextProductId, status |-> status, images |-> images,
                     created_at |-> DbTime(nextProductId), updated_at |-> NoTime]
         IN  /\ products' = products \cup {row}
             /\ nextProductId' = nextProductId + 1
             /\ req' = [req EXCEPT ![c] =
                   Respond(r, 201, [NoBody EXCEPT !.row = row], NoCookie)]
    /\ UNCHANGED <<authUsers, sessions, profiles, orders>>

\* .update({status, images, ..., updated_at}): a field the body does not
\* carry (undefined) is not sent and keeps its value
UpdatedRow(p, status, images, now) ==
    [p EXCEPT !.status = IF status = "" THEN @ ELSE status,
              !.images = IF images = ImagesUndefined THEN @ ELSE images,
              !.updated_at = DbTime(now)]

\* The answer of PUT /api/products/:id from the {data, error} of
\* .update(...).eq('id', id).select().single()
UpdateResponse(r, res) ==
    IF res.error # "" THEN Respond(r, 500, Err(res.error), NoCookie)
    ELSE IF res.data = NoProduct
    THEN Respond(r, 404, Err("Product not found"), NoCookie)
    ELSE Respond(r, 200, [NoBody EXCEPT !.row = res.data], NoCookie)

ApiProductsUpdate(c) ==
    /\ req[c].route = "PUT /api/products/:id" /\ req[c].pc = "handler"
    /\ \E status \in {"", "active", "inactive"},
          images \in ImagesValues \cup {ImagesUndefined},
          now \in 1..MaxTime :
         LET r       == [SeenProducts(Called(req[c], "products.update"))
                            EXCEPT !.pstatus = status, !.pimages = images]
             matched == {p \in products : p.id = r.pid}
             updated == {UpdatedRow(p, status, images, now) : p \in matched}
         IN  /\ products' = (products \ matched) \cup updated
             /\ req' = [req EXCEPT ![c] = UpdateResponse(r, Single(updated, NoProduct))]
    /\ UNCHANGED <<authUsers, sessions, profiles, orders, nextProductId>>

\* The answer of DELETE /api/products/:id from the exact count of deleted rows
DeleteResponse(r, count) ==
    IF count = 0 THEN Respond(r, 404, Err("Product not found"), NoCookie)
    ELSE Respond(r, 200, [NoBody EXCEPT !.success = TRUE], NoCookie)

ApiProductsDelete(c) ==
    /\ req[c].route = "DELETE /api/products/:id" /\ req[c].pc = "handler"
    /\ LET r       == SeenProducts(Called(req[c], "products.delete"))
           matched == {p \in products : p.id = r.pid}
       IN  /\ products' = products \ matched
           /\ req' = [req EXCEPT ![c] = DeleteResponse(r, Cardinality(matched))]
    /\ UNCHANGED <<authUsers, sessions, profiles, orders, nextProductId>>

(***************************************************************************)
(* GET /api/overview                                                       *)
(***************************************************************************)
\* new Date(ts): the instant of a timestamp string
NewDate(ts) == ts.ms
\* date.toISOString()
ToISOString(d) == [ms |-> d, zone |-> "Z"]

RECURSIVE SumImages_AnyLength(_)
\* the sum without Array.isArray: any value's length counts
SumImages_AnyLength(data) ==
    IF data = {} THEN 0
    ELSE LET p == CHOOSE x \in data : TRUE
         IN  p.images.length + SumImages_AnyLength(data \ {p})

RECURSIVE SumImages(_)
\* data.reduce((sum, p) => sum + (Array.isArray(p.images) ? p.images.length : 0), 0)
SumImages(data) ==
    IF data = {} THEN 0
    ELSE LET p == CHOOSE x \in data : TRUE
         IN  (IF p.images.isArray THEN p.images.length ELSE 0)
                + SumImages(data \ {p})

\* The stats the handler computes from the rows it fetched.
Overview(data) ==
    LET validTimestamps ==
            {NewDate(ts) : ts \in
                {t \in {IF p.updated_at # NoTime THEN p.updated_at ELSE p.created_at
                            : p \in data} : t # NoTime}}
        newest == CHOOSE d \in validTimestamps : \A e \in validTimestamps : e <= d
    IN  [totalProducts  |-> Cardinality(data),
         activeProducts |-> Cardinality({p \in data : p.status = "active"}),
         totalImages    |-> SumImages(data),
         lastUpdated    |-> IF data # {} /\ validTimestamps # {}
                            THEN ToISOString(newest) ELSE NoTime]

ApiOverview(c) ==
    /\ req[c].route = "GET /api/overview" /\ req[c].pc = "handler"
    /\ LET r == SeenProducts(Called(req[c], "products.select"))
       IN  req' = [req EXCEPT ![c] =
              Respond(r, 200, [NoBody EXCEPT !.overview = Overview(products)],
                      NoCookie)]
    /\ UNCHANGED <<authUsers, sessions, profiles, orders, products, nextProductId>>

(***************************************************************************)
(* GET /products and GET /product/:id (public)                             *)
(***************************************************************************)
ProductsBegin(c) ==
    /\ Free(c)
    /\ req' = [req EXCEPT ![c] = [Idle EXCEPT !.route = "GET /products",
                                              !.pc = "handler"]]
    /\ UNCHANGED <<authUsers, sessions, profiles, orders, products, nextProductId>>

\* .select('*').eq('status', 'active').order('created_at', {ascending: false})
ProductsList(c) ==
    /\ req[c].route = "GET /products" /\ req[c].pc = "handler"
    /\ LET r == SeenProducts(Called(req[c], "products.select"))
       IN  \E data \in OrderDesc({p \in products : p.status = "active"}) :
             req' = [req EXCEPT ![c] =
                Respond(r, 200, [NoBody EXCEPT !.rows = data], NoCookie)]
    /\ UNCHANGED <<authUsers, sessions, profiles, orders, products, nextProductId>>

ProductBegin(c) ==
    /\ Free(c)
    /\ \E pid \in ProductIds :
         req' = [req EXCEPT ![c] = [Idle EXCEPT !.route = "GET /product/:id",
                                                !.pc = "handler", !.pid = pid]]
    /\ UNCHANGED <<authUsers, sessions, profiles, orders, products, nextProductId>>

\* the query without its .eq('status', 'active') filter
ActiveProductById_AnyStatus(pid) == {p \in products : p.id = pid}

\* .from('products').select('*').eq('id', id).eq('status', 'active')
ActiveProductById(pid) == {p \in products : p.id = pid /\ p.status = "active"}

\* The answer of GET /product/:id from the {data, error} of .single():
\* PGRST116 (no row) is 404, any other error is thrown to the catch (500).
ProductResponse(r, res) ==
    IF res.error # ""
    THEN IF res.error = "PGRST116"
         THEN Respond(r, 404, Err("Product not found or not active."), NoCookie)
         ELSE Respond(r, 500, Err(res.error), NoCookie)
    ELSE Respond(r, 200, [NoBody EXCEPT !.row = res.data], NoCookie)

ProductGet(c) ==
    /\ req[c].route = "GET /product/:id" /\ req[c].pc = "handler"
    /\ LET r == SeenProducts(Called(req[c], "products.select"))
       IN  req' = [req EXCEPT ![c] =
              ProductResponse(r, Single(ActiveProductById(r.pid), NoProduct))]
    /\ UNCHANGED <<authUsers, sessions, profiles, orders, products, nextProductId>>

(***************************************************************************)
(* The admin panel.  It starts from a store the storefront routes have     *)
(* left: carol's registration created her identity and failed to insert    *)
(* her profile, and all three identities have logged in since.             *)
(***************************************************************************)
Carol == [id |-> 3, email |-> "carol", password |-> "p1"]

InitAdmin ==
    /\ authUsers = {[id |-> 1, email |-> "root", password |-> "p1"],
                    [id |-> 2, email |-> "alice", password |-> "p1"], Carol}
    /\ sessions = {AccessToken(u) : u \in authUsers}
    /\ profiles = {[rowid |-> 1, supabase_id |-> 1, email |-> "root", role |-> "admin"],
                   [rowid |-> 2, supabase_id |-> 2, email |-> "alice", role |-> "user"]}
    /\ orders = {}
    /\ products = {}
    /\ nextProductId = 1
    /\ req = [c \in Clients |-> Idle]

NextAdmin ==
    \E c \in Callers :
        \/ AuthAdminBegin(c, ApiRoutes) \/ AuthAdminGetUser(c) \/ AuthAdminRole(c)
        \/ ApiProductsList(c) \/ ApiProductsCreate(c)
        \/ ApiProductsUpdate(c) \/ ApiProductsDelete(c)
        \/ ApiOverview(c)

SpecAdmin == InitAdmin /\ [][NextAdmin]_vars

(***************************************************************************)
(* The catalogue.  The products table holds any rows the admin routes can  *)
(* have written: ids 1..MaxProducts in order of creation, some deleted,    *)
(* some updated; the routes that read it run.                              *)
(***************************************************************************)
RowContents ==
    [status : {"active", "inactive"}, images : ImagesValues,
     updated_at : {NoTime} \cup {DbTime(m) : m \in 1..MaxTime}]

Deleted == [status |-> "", images |-> ImagesNull, updated_at |-> NoTime]

Tables ==
    {{[id |-> id, status |-> f[id].status, images |-> f[id].images,
       created_at |-> DbTime(id), updated_at |-> f[id].updated_at] :
            id \in {i \in 1..MaxProducts : f[i] # Deleted}} :
        f \in [1..MaxProducts -> RowContents \cup {Deleted}]}

InitCatalog ==
    /\ authUsers = {[id |-> 1, email |-> "root", password |-> "p1"],
                    [id |-> 2, email |-> "alice", password |-> "p1"]}
    /\ sessions = {AccessToken(u) : u \in authUsers}
    /\ profiles = {[rowid |-> 1, supabase_id |-> 1, email |-> "root", role |-> "admin"],
                   [rowid |-> 2, supabase_id |-> 2, email |-> "alice", role |-> "user"]}
    /\ orders = {}
    /\ products \in Tables
    /\ nextProductId = MaxProducts + 1
    /\ req = [c \in Clients |-> Idle]

NextCatalog ==
    \E c \in Callers :
        \/ AuthAdminBegin(c, {"GET /api/overview"})
        \/ AuthAdminGetUser(c) \/ AuthAdminRole(c) \/ ApiOverview(c)
        \/ ProductsBegin(c) \/ ProductsList(c)
        \/ ProductBegin(c) \/ ProductGet(c)

SpecCatalog == InitCatalog /\ [][NextCatalog]_vars


(***************************************************************************)
(* Properties of the admin routes, checked under SpecAdmin.                *)
(***************************************************************************)
ProductCalls == {"products.select", "products.insert", "products.update",
                 "products.delete"}

\* C3: a handler of an /api route issues its products operation only for a
\* request whose cookie `token` resolved to an identity whose profile had
\* role "admin" when the middleware asked; without the cookie the answer is
\* 401, with a token that resolves to no identity 401, with an identity
\* that has no profile or another role 403, and in each of these cases no
\* products operation is issued and the table is as the request found it.
C3_ApiOnlyForAdmins ==
    \A c \in Callers :
        req[c].route \in ApiRoutes =>
            LET r      == req[c]
                admin  == r.cookie # NoToken /\ r.seen.identity # 0
                            /\ AdminProfileSeen(r)
                denied == r.calls \cap ProductCalls = {} /\ products = r.seen.table
            IN  /\ (r.calls \cap ProductCalls # {} \/ r.pc = "handler") => admin
                /\ (r.pc = "done" /\ r.cookie = NoToken) =>
                       r.status = 401 /\ r.calls = {} /\ denied
                /\ (r.pc = "done" /\ r.cookie # NoToken /\ r.seen.identity = 0) =>
                       r.status = 401 /\ denied
                /\ (r.pc = "done" /\ r.seen.identity # 0 /\ ~ AdminProfileSeen(r)) =>
                       r.status = 403 /\ denied

\* C3 witness: a customer's valid token was refused with 403 on a write
\* route while the table held a row.
C3_Witness ==
    \E c \in Callers :
        /\ Done(c, "DELETE /api/products/:id") /\ req[c].status = 403
        /\ req[c].seen.profileRows # {}
        /\ \E p \in products : p.id = req[c].pid

\* C9, as claimed: for an admin, PUT /api/products/:id with an id that
\* matches no row answers 404, DELETE /api/products/:id that deletes no row
\* answers 404, and both leave the table unchanged.
C9_MissingIdIsNotFound ==
    \A c \in Callers :
        (/\ req[c].route \in IdRoutes /\ req[c].pc = "done"
         /\ req[c].calls \cap ProductCalls # {}
         /\ req[c].seen.product = {}) =>
            req[c].status = 404 /\ products = req[c].seen.table

(***************************************************************************)
(* Properties of the catalogue routes, checked under SpecCatalog.          *)
(***************************************************************************)
NotFoundAnswer == [status |-> 404, body |-> Err("Product not found or not active.")]

Answer(c) == [status |-> req[c].status, body |-> req[c].body]

\* C8: GET /product/:id answers an id whose row is not "active" exactly as
\* it answers an id that has no row: the same 404 and the same body; only
\* an id whose row is "active" gets 200 with the row.
C8_InactiveLooksMissing ==
    \A c \in Callers :
        Done(c, "GET /product/:id") =>
            IF \E p \in req[c].seen.product : p.status = "active"
            THEN /\ req[c].status = 200
                 /\ req[c].body.row \in req[c].seen.product
            ELSE Answer(c) = NotFoundAnswer

\* C8 witness: the id asked for has a row, which is inactive, and another
\* id has none.
C8_Witness ==
    \E c \in Callers :
        /\ Done(c, "GET /product/:id") /\ req[c].status = 404
        /\ req[c].seen.product # {}
        /\ \E pid \in ProductIds : \A p \in products : p.id # pid

\* the timestamp a row counts with: updated_at if present, else created_at
Effective(p) == IF p.updated_at # NoTime THEN p.updated_at.ms ELSE p.created_at.ms

\* C10: for an admin GET /api/overview returns the number of rows, the
\* number of "active" rows, the sum of the lengths of the images arrays
\* (a value that is no array counts zero) and, as lastUpdated, the latest
\* of the rows' updated_at-else-created_at, or null when there is no row.
C10_OverviewStats ==
    \A c \in Callers :
        (Done(c, "GET /api/overview") /\ req[c].status = 200) =>
            LET t == req[c].seen.table
                o == req[c].body.overview
            IN  /\ o.totalProducts = Cardinality(t)
                /\ o.activeProducts = Cardinality({p \in t : p.status = "active"})
                /\ o.totalImages = Cardinality(
                       UNION {{<<q.id, j>> : j \in 1..q.images.length} :
                                q \in {x \in t : x.images.isArray}})
                /\ IF t = {} THEN o = NoOverview
                   ELSE /\ o.lastUpdated.zone = "Z"
                        /\ \E p \in t : Effective(p) = o.lastUpdated.ms
                        /\ \A p \in t : Effective(p) <= o.lastUpdated.ms

\* C10 witness: the overview of a full table in which a row carries a
\* string for images and the latest timestamp is an updated_at.
C10_Witness ==
    \E c \in Callers :
        /\ Done(c, "GET /api/overview") /\ req[c].status = 200
        /\ Cardinality(req[c].seen.table) = MaxProducts
        /\ \E p \in req[c].seen.table : ~ p.images.isArray
        /\ \E p \in req[c].seen.table : p.images.isArray
        /\ \E p \in req[c].seen.table :
              p.updated_at # NoTime /\ p.updated_at.ms = req[c].body.overview.lastUpdated.ms
        /\ \E p \in req[c].seen.table : p.updated_at = NoTime

=============================================================================
